---- MODULE Spec2Model ----
(***************************************************************************)
(* A model of sqlite.hpp: the wrapper objects (Connection, Statement,      *)
(* Query, Result, Blob) over the engine's handles.  The engine itself is   *)
(* modelled by what its documented interface does at each call site of     *)
(* the header: a prepared statement is a cursor over a fixed number of     *)
(* rows, remembers a failed step until it is reset or finalized, and is    *)
(* freed by sqlite3_finalize.                                              *)
(***************************************************************************)
EXTENDS Integers, Sequences, FiniteSets, TLC

MaxStmts == 2
MaxRows == 3
MaxLifeRows == 1
MaxCalls == 8
MaxArgs == 3
MaxParams == 3
MaxIntArg == 2
MaxLen == 3
MaxByte == 2
MaxDbs == 2
MaxPending == 1
MaxBufs == 2
MaxBackups == 2

VARIABLES
    build,  \* "throw" or "nothrow": which CPP_SQLITE_THROW the header was compiled with
    stmt,   \* the engine's prepared statements, by handle
    sobj,   \* the Statement / Query objects of the program
    robj,   \* the Result objects of the program
    halt,   \* "run", "terminate" (an exception left a destructor), "ub" (use of a freed handle)
    last,   \* what the last operation did: its name, result, exception, engine calls
    log,    \* the results of the steps taken on the cursor since it was last fresh
    col,    \* the column value the engine holds for the current row
    mem,    \* the buffers of the program's strings and blobs that values were bound from
    db,     \* the engine's database connections, by handle
    cobj,   \* the Connection objects of the program
    bk      \* the engine's backup objects, by handle

vars == <<build, stmt, sobj, robj, halt, last, log, col, mem, db, cobj, bk>>

-----------------------------------------------------------------------------
(* Engine statuses and handles *)

SQLITE_OK == "SQLITE_OK"
SQLITE_ROW == "SQLITE_ROW"
SQLITE_DONE == "SQLITE_DONE"
SQLITE_MISUSE == "SQLITE_MISUSE"
SQLITE_RANGE == "SQLITE_RANGE"
\* the statuses a step can fail with (besides misuse)
StepFaults == {"SQLITE_BUSY", "SQLITE_CONSTRAINT"}

NULL == 0
Handles == 1..MaxStmts
SSlots == {"s1", "s2"}
RSlots == {"r1", "r2"}

NoStmt == [st |-> "none", rows |-> 0, pos |-> 0, run |-> "ready", err |-> "none", params |-> <<>>]
NoRet == "void"

\* what the record of an operation keeps of its result: nothing (a void
\* function, or one left by an exception), a bool, an int, or bytes
RetVoid == [tag |-> "void", val |-> <<>>]
RetBool(e) ==
    IF e.exc # "none" THEN RetVoid
    ELSE [tag |-> IF e.ret THEN "true" ELSE "false", val |-> <<>>]
RetInt(e) == IF e.exc # "none" THEN RetVoid ELSE [tag |-> "int", val |-> <<e.ret>>]
RetString(e) == IF e.exc # "none" THEN RetVoid ELSE [tag |-> "string", val |-> e.ret]
RetBlob(e) == IF e.exc # "none" THEN RetVoid ELSE [tag |-> "Blob", val |-> e.ret.m_data]

\* sqlite3_prepare_v2: a fresh handle over a result set of `rows` rows and
\* `np` parameters, all unbound
FreeHandles(st) == {h \in Handles : st[h].st = "none"}
NewHandle(st) == CHOOSE h \in FreeHandles(st) : \A g \in FreeHandles(st) : h <= g
sqlite3_prepare_v2(st, rows, np) ==
    LET h == NewHandle(st) IN
    [st |-> [st EXCEPT ![h] = [st |-> "live", rows |-> rows, pos |-> 0, run |-> "ready",
                               err |-> "none",
                               params |-> [i \in 1..np |-> [kind |-> "null", v |-> 0]]]],
     h |-> h]

\* a call on a handle that was already finalized is a use of freed memory
Freed(st, h) == h # NULL /\ st[h].st # "live"

\* sqlite3_step: one step.  A failed step is remembered by the statement;
\* a step after completion or failure starts the command again.
sqlite3_step(st, h, fault) ==
    IF h = NULL THEN [st |-> st, code |-> SQLITE_MISUSE, ub |-> FALSE]
    ELSE IF Freed(st, h) THEN [st |-> st, code |-> SQLITE_MISUSE, ub |-> TRUE]
    ELSE IF fault # "none"
    THEN [st |-> [st EXCEPT ![h].run = "error", ![h].err = fault, ![h].pos = 0],
          code |-> fault, ub |-> FALSE]
    ELSE LET p == IF st[h].run \in {"done", "error"} THEN 0 ELSE st[h].pos IN
         IF p < st[h].rows
         THEN [st |-> [st EXCEPT ![h].run = "rows", ![h].err = "none", ![h].pos = p + 1],
               code |-> SQLITE_ROW, ub |-> FALSE]
         ELSE [st |-> [st EXCEPT ![h].run = "done", ![h].err = "none", ![h].pos = p],
               code |-> SQLITE_DONE, ub |-> FALSE]

\* the status sqlite3_reset and sqlite3_finalize report: that of the most
\* recent evaluation, if it failed
EvalStatus(s) == IF s.run = "error" THEN s.err ELSE SQLITE_OK

sqlite3_reset(st, h) ==
    IF h = NULL THEN [st |-> st, code |-> SQLITE_OK, ub |-> FALSE]
    ELSE IF Freed(st, h) THEN [st |-> st, code |-> SQLITE_MISUSE, ub |-> TRUE]
    ELSE [st |-> [st EXCEPT ![h].run = "ready", ![h].err = "none", ![h].pos = 0],
          code |-> EvalStatus(st[h]), ub |-> FALSE]

sqlite3_finalize(st, h) ==
    IF h = NULL THEN [st |-> st, code |-> SQLITE_OK, ub |-> FALSE]
    ELSE IF Freed(st, h)
    THEN [st |-> [st EXCEPT ![h] = [NoStmt EXCEPT !.st = "double"]],
          code |-> SQLITE_MISUSE, ub |-> TRUE]
    ELSE [st |-> [st EXCEPT ![h] = [NoStmt EXCEPT !.st = "finalized"]],
          code |-> EvalStatus(st[h]), ub |-> FALSE]

\* what the engine keeps of a bound value: sqlite3_bind_int and _int64 store an
\* integer, _double a real (a float is widened first), _text a text, _blob a blob
BindFn(kind) ==
    CASE kind = "int32" -> "sqlite3_bind_int"
      [] kind = "int64" -> "sqlite3_bind_int64"
      [] kind \in {"float", "double"} -> "sqlite3_bind_double"
      [] kind = "text" -> "sqlite3_bind_text"
      [] kind \in {"Blob", "NOBlob"} -> "sqlite3_bind_blob"
Stored(fn, v) ==
    [kind |-> CASE fn \in {"sqlite3_bind_int", "sqlite3_bind_int64"} -> "integer"
                [] fn = "sqlite3_bind_double" -> "real"
                [] fn = "sqlite3_bind_text" -> "text"
                [] fn = "sqlite3_bind_blob" -> "blob",
     v |-> v]

\* sqlite3_bind_*: misuse on a null handle or a statement stepped more recently
\* than reset, range error for an index that is no parameter of the statement
sqlite3_bind(st, h, index, fn, v) ==
    IF h = NULL THEN [st |-> st, code |-> SQLITE_MISUSE, ub |-> FALSE]
    ELSE IF Freed(st, h) THEN [st |-> st, code |-> SQLITE_MISUSE, ub |-> TRUE]
    ELSE IF st[h].run # "ready" THEN [st |-> st, code |-> SQLITE_MISUSE, ub |-> FALSE]
    ELSE IF index \notin 1..Len(st[h].params) THEN [st |-> st, code |-> SQLITE_RANGE, ub |-> FALSE]
    ELSE [st |-> [st EXCEPT ![h].params[index] = Stored(fn, v)], code |-> SQLITE_OK, ub |-> FALSE]

-----------------------------------------------------------------------------
(* Priv::CheckError and the outcome of an operation *)

\* CheckError(code): true for SQLITE_OK and SQLITE_DONE; otherwise
\* CPP_SQLITE_THROW, which throws or, under CPP_SQLITE_NOTHROW, returns false
CheckErrorOk(code) == code = SQLITE_OK \/ code = SQLITE_DONE
CPP_SQLITE_THROW(b) == IF b = "nothrow" THEN "none" ELSE "Error"
CheckError(b, code) ==
    IF ~CheckErrorOk(code) THEN [ret |-> FALSE, exc |-> CPP_SQLITE_THROW(b)]
    ELSE [ret |-> TRUE, exc |-> "none"]

\* the value of F at v, with v computed once
Eval(v, F(_)) == CHOOSE y \in {F(x) : x \in {v}} : TRUE

Call(f, h, code) == <<f, h, code>>
Out(st, ret, exc, calls, ub) == [st |-> st, ret |-> ret, exc |-> exc, calls |-> calls, ub |-> ub]

-----------------------------------------------------------------------------
(* Statement *)

\* Statement::Statement(sqlite3*, const std::string&): prepares the command.
\* On failure the engine leaves the handle null and CheckError raises.
Statement_Ctor(b, st, rows, np, prepFail) ==
    IF prepFail
    THEN [st |-> st, h |-> NULL, exc |-> CheckError(b, "SQLITE_ERROR").exc,
          calls |-> <<Call("prepare", NULL, "SQLITE_ERROR")>>]
    ELSE LET p == sqlite3_prepare_v2(st, rows, np) IN
         [st |-> p.st, h |-> p.h, exc |-> CheckError(b, SQLITE_OK).exc,
          calls |-> <<Call("prepare", p.h, SQLITE_OK)>>]

\* Statement::~Statement: finalizes a non-null handle and passes the status
\* to CheckError
Statement_Dtor(b, st, h) ==
    IF h # NULL
    THEN LET f == sqlite3_finalize(st, h) IN
         Out(f.st, NoRet, CheckError(b, f.code).exc, <<Call("finalize", h, f.code)>>, f.ub)
    ELSE Out(st, NoRet, "none", <<>>, FALSE)

\* Statement::Reset
Statement_Reset(b, st, h) ==
    LET r == sqlite3_reset(st, h)
        c == CheckError(b, r.code)
    IN Out(r.st, IF c.exc = "none" THEN c.ret ELSE NoRet, c.exc,
           <<Call("reset", h, r.code)>>, r.ub)

\* Evaluate as it would be without the Reset after completion
Statement_Evaluate_NoReset(b, st, h, fault) ==
    Eval(sqlite3_step(st, h, fault), LAMBDA s :
      IF s.code = SQLITE_ROW THEN Out(s.st, TRUE, "none", <<Call("step", h, s.code)>>, s.ub)
      ELSE IF CheckError(b, s.code).exc # "none"
      THEN Out(s.st, NoRet, "Error", <<Call("step", h, s.code)>>, s.ub)
      ELSE Out(s.st, FALSE, "none", <<Call("step", h, s.code)>>, s.ub))

\* Statement::Evaluate
Statement_Evaluate(b, st, h, fault) ==
    Eval(sqlite3_step(st, h, fault), LAMBDA s :
      IF s.code = SQLITE_ROW THEN Out(s.st, TRUE, "none", <<Call("step", h, s.code)>>, s.ub)
      ELSE IF CheckError(b, s.code).exc # "none"
      THEN Out(s.st, NoRet, "Error", <<Call("step", h, s.code)>>, s.ub)
      ELSE Eval(Statement_Reset(b, s.st, h), LAMBDA r :
             Out(r.st, IF r.exc # "none" THEN NoRet ELSE FALSE, r.exc,
                 <<Call("step", h, s.code)>> \o r.calls, s.ub \/ r.ub)))

\* Statement::Bind(int index, const T& data), one overload per kind of value
Statement_BindAt(b, st, h, index, val) ==
    Eval(sqlite3_bind(st, h, index, BindFn(val.kind), val.v), LAMBDA e :
      Eval(CheckError(b, e.code), LAMBDA c :
        Out(e.st, IF c.exc = "none" THEN c.ret ELSE NoRet, c.exc,
            <<<<"bind", h, e.code, index, BindFn(val.kind), val.v>>>>, e.ub)))

\* the private Bind(int index, const First&, const Args&...):
\* Bind(index, first) && Bind(++index, args...)
RECURSIVE Statement_BindFrom(_, _, _, _, _)
Statement_BindFrom(b, st, h, index, args) ==
    IF Len(args) = 1 THEN Statement_BindAt(b, st, h, index, args[1])
    ELSE Eval(Statement_BindAt(b, st, h, index, args[1]), LAMBDA o :
           IF o.exc # "none" \/ o.ret = FALSE THEN o
           ELSE Eval(Statement_BindFrom(b, o.st, h, index + 1, Tail(args)), LAMBDA t :
                  Out(t.st, t.ret, t.exc, o.calls \o t.calls, o.ub \/ t.ub)))

\* Bind(const First&, const Args&...): Reset() && Bind(1, first, args...)
Statement_BindAll(b, st, h, args) ==
    Eval(Statement_Reset(b, st, h), LAMBDA r :
      IF r.exc # "none" \/ r.ret = FALSE THEN r
      ELSE Eval(Statement_BindFrom(b, r.st, h, 1, args), LAMBDA t :
             Out(t.st, t.ret, t.exc, r.calls \o t.calls, r.ub \/ t.ub)))

\* the call Bind(v1, ..., vk) as the compiler resolves it.  With v1 an int
\* and k = 2 the non-template Bind(int index, const T&) is the better match;
\* with v1 an int and k > 2 the private Bind(int index, first, args...) is the
\* more specialized template (callable from Connection, a friend).  Every
\* other call is Bind(const First&, const Args&...).
Statement_Bind(b, st, h, args) ==
    IF Len(args) >= 2 /\ args[1].kind = "int32"
    THEN IF Len(args) = 2 THEN Statement_BindAt(b, st, h, args[1].v, args[2])
         ELSE Statement_BindFrom(b, st, h, args[1].v, Tail(args))
    ELSE Statement_BindAll(b, st, h, args)

-----------------------------------------------------------------------------
(* Result *)

\* Result::~Result: an owning Result finalizes what it holds, status ignored
Result_Dtor(st, h, owning) ==
    IF owning
    THEN LET f == sqlite3_finalize(st, h) IN
         Out(f.st, NoRet, "none", <<Call("finalize", h, f.code)>>, f.ub)
    ELSE Out(st, NoRet, "none", <<>>, FALSE)

\* Result::Reset
Result_Reset(b, st, h) ==
    LET r == sqlite3_reset(st, h)
        c == CheckError(b, r.code)
    IN Out(r.st, IF c.exc = "none" THEN c.ret ELSE NoRet, c.exc,
           <<Call("reset", h, r.code)>>, r.ub)

\* Next as it would be if it rewound the statement before stepping it
Result_Next_Rewinds(b, st, h, fault) ==
    Eval(sqlite3_step(sqlite3_reset(st, h).st, h, fault), LAMBDA s :
      IF s.code = SQLITE_ROW THEN Out(s.st, TRUE, "none", <<Call("step", h, s.code)>>, s.ub)
      ELSE IF CheckError(b, s.code).exc # "none"
      THEN Out(s.st, NoRet, "Error", <<Call("step", h, s.code)>>, s.ub)
      ELSE Eval(Result_Reset(b, s.st, h), LAMBDA r :
             Out(r.st, IF r.exc # "none" THEN NoRet ELSE FALSE, r.exc,
                 <<Call("step", h, s.code)>> \o r.calls, s.ub \/ r.ub)))

\* Result::Next
Result_Next(b, st, h, fault) ==
    Eval(sqlite3_step(st, h, fault), LAMBDA s :
      IF s.code = SQLITE_ROW THEN Out(s.st, TRUE, "none", <<Call("step", h, s.code)>>, s.ub)
      ELSE IF CheckError(b, s.code).exc # "none"
      THEN Out(s.st, NoRet, "Error", <<Call("step", h, s.code)>>, s.ub)
      ELSE Eval(Result_Reset(b, s.st, h), LAMBDA r :
             Out(r.st, IF r.exc # "none" THEN NoRet ELSE FALSE, r.exc,
                 <<Call("step", h, s.code)>> \o r.calls, s.ub \/ r.ub)))

\* sqlite3_column_count of the example's query (three selected columns)
ExampleColumns == 3
sqlite3_column_count(st, h) == IF h = NULL THEN 0 ELSE ExampleColumns

\* a ColumnCount that would ask the engine without probing for a row
Result_ColumnCount_NoProbe(b, st, h, fault) ==
    Eval(Result_Reset(b, st, h), LAMBDA r1 :
      IF r1.exc # "none" THEN r1
      ELSE Out(r1.st, sqlite3_column_count(r1.st, h), "none", r1.calls, r1.ub))

\* Result::ColumnCount: Reset, Next, column count, Reset
Result_ColumnCount(b, st, h, fault) ==
    Eval(Result_Reset(b, st, h), LAMBDA r1 :
      IF r1.exc # "none" THEN r1
      ELSE Eval(Result_Next(b, r1.st, h, fault), LAMBDA n :
        IF n.exc # "none" THEN Out(n.st, NoRet, n.exc, r1.calls \o n.calls, r1.ub \/ n.ub)
        ELSE IF n.ret = FALSE THEN Out(n.st, 0, "none", r1.calls \o n.calls, r1.ub \/ n.ub)
        ELSE Eval(Result_Reset(b, n.st, h), LAMBDA r2 :
               Out(r2.st,
                   IF r2.exc # "none" THEN NoRet ELSE sqlite3_column_count(n.st, h),
                   r2.exc, r1.calls \o n.calls \o r2.calls, r1.ub \/ n.ub \/ r2.ub))))

\* Result::HasData
Result_HasData(b, st, h, fault) ==
    Eval(Result_ColumnCount(b, st, h, fault), LAMBDA c :
      IF c.exc # "none" THEN c ELSE [c EXCEPT !.ret = (@ > 0)])

-----------------------------------------------------------------------------
(* The program's objects: construction, moves, destruction *)

DeadS == [alive |-> FALSE, h |-> NULL, cls |-> "Statement"]
DeadR == [alive |-> FALSE, h |-> NULL, owning |-> FALSE]
Rows == 0..MaxRows
Faults == {"none"} \cup StepFaults

Running == halt = "run"
CanPrepare == FreeHandles(stmt) # {}

\* the record of an operation; an exception leaving a destructor (which is
\* noexcept) ends the program
Record(op, obj, ret, exc, calls) ==
    last' = [op |-> op, obj |-> obj, ret |-> ret, exc |-> exc, calls |-> calls]
Halt(ub, dtorExc) ==
    halt' = IF ub THEN "ub" ELSE IF dtorExc # "none" THEN "terminate" ELSE "run"

\* Connection::Statement(command): a local Statement, Evaluate, and the
\* local's destructor, which also runs while an Error from Evaluate unwinds
ConnStatement(rows, prepFail, fault) ==
    /\ Running /\ CanPrepare
    /\ \E c \in {Statement_Ctor(build, stmt, rows, 0, prepFail)} :
       IF c.exc # "none"
       THEN /\ stmt' = c.st
            /\ Record("Connection::Statement", "conn", RetVoid, c.exc, c.calls)
            /\ Halt(FALSE, "none")
       ELSE \E e \in {Statement_Evaluate(build, c.st, c.h, fault)} :
            \E d \in {Statement_Dtor(build, e.st, c.h)} :
               /\ stmt' = d.st
               /\ Record("Connection::Statement", "conn", RetBool(e), e.exc,
                         c.calls \o e.calls \o d.calls)
               /\ Halt(e.ub \/ d.ub, d.exc)
    /\ UNCHANGED <<build, sobj, robj, log, col, mem, db, cobj, bk>>

\* Connection::Query(command): a local Query whose handle an owning Result
\* takes (swapping null into the Query), then the Query's destructor
ConnQuery(r, rows, prepFail) ==
    /\ Running /\ CanPrepare /\ ~robj[r].alive
    /\ \E c \in {Statement_Ctor(build, stmt, rows, 0, prepFail)} :
       IF c.exc # "none"
       THEN /\ stmt' = c.st /\ robj' = robj
            /\ Record("Connection::Query", r, RetVoid, c.exc, c.calls)
            /\ Halt(FALSE, "none")
       ELSE \E d \in {Statement_Dtor(build, c.st, NULL)} :
            /\ stmt' = d.st
            /\ robj' = [robj EXCEPT ![r] = [alive |-> TRUE, h |-> c.h, owning |-> TRUE]]
            /\ Record("Connection::Query", r, RetVoid, "none", c.calls \o d.calls)
            /\ Halt(d.ub, d.exc)
    /\ UNCHANGED <<build, sobj, log, col, mem, db, cobj, bk>>

\* Connection::PrepareStatement / PrepareQuery: the prepared object, returned
Prepare(s, cls, rows, prepFail) ==
    /\ Running /\ CanPrepare /\ ~sobj[s].alive
    /\ \E c \in {Statement_Ctor(build, stmt, rows, 0, prepFail)} :
       /\ stmt' = c.st
       /\ sobj' = IF c.exc # "none" THEN sobj
                  ELSE [sobj EXCEPT ![s] = [alive |-> TRUE, h |-> c.h, cls |-> cls]]
       /\ Record("Connection::Prepare" \o cls, s, RetVoid, c.exc, c.calls)
       /\ Halt(FALSE, "none")
    /\ UNCHANGED <<build, robj, log, col, mem, db, cobj, bk>>
PrepareStatement(s, rows, prepFail) == Prepare(s, "Statement", rows, prepFail)
PrepareQuery(s, rows, prepFail) == Prepare(s, "Query", rows, prepFail)

\* Query::Execute: a Result that borrows the Query's handle (own = false)
QueryExecute(s, r) ==
    /\ Running /\ sobj[s].alive /\ sobj[s].cls = "Query" /\ ~robj[r].alive
    /\ robj' = [robj EXCEPT ![r] = [alive |-> TRUE, h |-> sobj[s].h, owning |-> FALSE]]
    /\ Record("Query::Execute", s, RetVoid, "none", <<>>)
    /\ Halt(FALSE, "none")
    /\ UNCHANGED <<build, stmt, sobj, log, col, mem, db, cobj, bk>>

\* Statement(Statement&&): swaps the new object's null handle with the source's
StatementMoveCtor(src, dst) ==
    /\ Running /\ sobj[src].alive /\ ~sobj[dst].alive
    /\ sobj' = [sobj EXCEPT ![dst] = [alive |-> TRUE, h |-> sobj[src].h, cls |-> sobj[src].cls],
                            ![src].h = NULL]
    /\ Record("Statement(Statement&&)", dst, RetVoid, "none", <<>>)
    /\ Halt(FALSE, "none")
    /\ UNCHANGED <<build, stmt, robj, log, col, mem, db, cobj, bk>>

\* Statement::operator=(Statement&&): m_handle = other.m_handle;
\* other.m_handle = nullptr (in this order, also when other is *this)
StatementMoveAssign(src, dst) ==
    /\ Running /\ sobj[src].alive /\ sobj[dst].alive
    /\ sobj[dst].cls = "Query" => sobj[src].cls = "Query"
    /\ \E a \in {[sobj EXCEPT ![dst].h = sobj[src].h]} :
       sobj' = [a EXCEPT ![src].h = NULL]
    /\ Record("Statement::operator=", dst, RetVoid, "none", <<>>)
    /\ Halt(FALSE, "none")
    /\ UNCHANGED <<build, stmt, robj, log, col, mem, db, cobj, bk>>

\* ~Statement of a program object
StatementDestroy(s) ==
    /\ Running /\ sobj[s].alive
    /\ \E d \in {Statement_Dtor(build, stmt, sobj[s].h)} :
       /\ stmt' = d.st
       /\ Record("~Statement", s, RetVoid, d.exc, d.calls)
       /\ Halt(d.ub, d.exc)
    /\ sobj' = [sobj EXCEPT ![s] = DeadS]
    /\ UNCHANGED <<build, robj, log, col, mem, db, cobj, bk>>

\* Result(Result&&): copies m_owning, swaps null with the source's handle
ResultMoveCtor(src, dst) ==
    /\ Running /\ robj[src].alive /\ ~robj[dst].alive
    /\ robj' = [robj EXCEPT ![dst] = [alive |-> TRUE, h |-> robj[src].h,
                                      owning |-> robj[src].owning],
                            ![src].h = NULL]
    /\ Record("Result(Result&&)", dst, RetVoid, "none", <<>>)
    /\ Halt(FALSE, "none")
    /\ UNCHANGED <<build, stmt, sobj, log, col, mem, db, cobj, bk>>

\* Result::operator=(Result&&): swap(m_statement, other.m_statement);
\* other.m_statement = nullptr.  m_owning is not assigned.
ResultMoveAssign(src, dst) ==
    /\ Running /\ robj[src].alive /\ robj[dst].alive
    /\ \E a \in {[robj EXCEPT ![dst].h = robj[src].h, ![src].h = robj[dst].h]} :
       robj' = [a EXCEPT ![src].h = NULL]
    /\ Record("Result::operator=", dst, RetVoid, "none", <<>>)
    /\ Halt(FALSE, "none")
    /\ UNCHANGED <<build, stmt, sobj, log, col, mem, db, cobj, bk>>

\* ~Result of a program object
ResultDestroy(r) ==
    /\ Running /\ robj[r].alive
    /\ \E d \in {Result_Dtor(stmt, robj[r].h, robj[r].owning)} :
       /\ stmt' = d.st
       /\ Record("~Result", r, RetVoid, d.exc, d.calls)
       /\ Halt(d.ub, d.exc)
    /\ robj' = [robj EXCEPT ![r] = DeadR]
    /\ UNCHANGED <<build, sobj, log, col, mem, db, cobj, bk>>

\* Statement::Evaluate on a program object
StatementEvaluate(s, fault) ==
    /\ Running /\ sobj[s].alive
    /\ \E e \in {Statement_Evaluate(build, stmt, sobj[s].h, fault)} :
       /\ stmt' = e.st
       /\ Record("Statement::Evaluate", s, RetBool(e), e.exc, e.calls)
       /\ Halt(e.ub, "none")
    /\ UNCHANGED <<build, sobj, robj, log, col, mem, db, cobj, bk>>

\* Result::Next on a program object
ResultNext(r, fault) ==
    /\ Running /\ robj[r].alive
    /\ \E e \in {Result_Next(build, stmt, robj[r].h, fault)} :
       /\ stmt' = e.st
       /\ Record("Result::Next", r, RetBool(e), e.exc, e.calls)
       /\ Halt(e.ub, "none")
    /\ UNCHANGED <<build, sobj, robj, log, col, mem, db, cobj, bk>>

InitObjects ==
    /\ stmt = [h \in Handles |-> NoStmt]
    /\ sobj = [s \in SSlots |-> DeadS]
    /\ robj = [r \in RSlots |-> DeadR]
    /\ halt = "run"
    /\ last = [op |-> "init", obj |-> "none", ret |-> RetVoid, exc |-> "none", calls |-> <<>>]

\* the ownership specification: commands and queries of at most MaxLifeRows
\* rows, steps that succeed or fail with a constraint violation
LifeRows == 0..MaxLifeRows
LifeFaults == {"none", "SQLITE_CONSTRAINT"}

InitOther == log = <<>> /\ col = <<>> /\ mem = <<>> /\ db = <<>> /\ cobj = <<>> /\ bk = <<>>

Init == build = "throw" /\ InitObjects /\ InitOther

Next ==
    \/ \E n \in LifeRows, pf \in BOOLEAN, f \in LifeFaults : ConnStatement(n, pf, f)
    \/ \E r \in RSlots, n \in LifeRows, pf \in BOOLEAN : ConnQuery(r, n, pf)
    \/ \E s \in SSlots, n \in LifeRows, pf \in BOOLEAN : PrepareStatement(s, n, pf)
    \/ \E s \in SSlots, n \in LifeRows, pf \in BOOLEAN : PrepareQuery(s, n, pf)
    \/ \E s \in SSlots, r \in RSlots : QueryExecute(s, r)
    \/ \E a, b \in SSlots : StatementMoveCtor(a, b)
    \/ \E a, b \in SSlots : StatementMoveAssign(a, b)
    \/ \E s \in SSlots : StatementDestroy(s)
    \/ \E a, b \in RSlots : ResultMoveCtor(a, b)
    \/ \E a, b \in RSlots : ResultMoveAssign(a, b)
    \/ \E r \in RSlots : ResultDestroy(r)
    \/ \E s \in SSlots, f \in LifeFaults : StatementEvaluate(s, f)
    \/ \E r \in RSlots, f \in LifeFaults : ResultNext(r, f)


Spec == Init /\ [][Next]_vars

-----------------------------------------------------------------------------
(* Ownership of prepared statements (specification Spec) *)

AllDestroyed == (\A s \in SSlots : ~sobj[s].alive) /\ (\A r \in RSlots : ~robj[r].alive)

\* C1: no prepared-statement handle is ever finalized twice, and none is
\* finalized while a live Statement or Query, its owner, still holds it.
C1_NoDoubleOrPrematureFinalize ==
    \A h \in Handles :
        /\ stmt[h].st # "double"
        /\ stmt[h].st = "finalized" => \A s \in SSlots : ~(sobj[s].alive /\ sobj[s].h = h)

\* C2: no destructor of a Statement or Query lets an error escape (which, the
\* destructor being noexcept, would end the program), whatever the state of
\* the statement, a failed Evaluate included.
C2_DestructorNeverRaises == halt # "terminate"

\* C8: once every Statement, Query and Result object has been destroyed, no
\* prepared statement remains unfinalized.
C8_AllFinalizedWhenAllDestroyed ==
    (AllDestroyed /\ halt = "run") => \A h \in Handles : stmt[h].st # "live"

-----------------------------------------------------------------------------
(* The cursor (specification SpecCursor): a Query "s1" over a result set of *)
(* n rows and the Result "r1" that Query::Execute made of it               *)

TheStmt == 1
CursorFrame == UNCHANGED <<build, sobj, robj, col, mem, db, cobj, bk>>

InitCursor ==
    /\ build = "throw"
    /\ \E n \in Rows :
         stmt = sqlite3_prepare_v2([g \in Handles |-> NoStmt], n, 0).st
    /\ sobj = [s \in SSlots |-> IF s = "s1" THEN [alive |-> TRUE, h |-> TheStmt, cls |-> "Query"]
                                ELSE DeadS]
    /\ robj = [r \in RSlots |-> IF r = "r1" THEN [alive |-> TRUE, h |-> TheStmt, owning |-> FALSE]
                                ELSE DeadR]
    /\ halt = "run"
    /\ last = [op |-> "init", obj |-> "none", ret |-> RetVoid, exc |-> "none", calls |-> <<>>]
    /\ InitOther

\* the log of the steps since the cursor was last fresh: a step that returns
\* is logged, one that fails abandons the evaluation
Logged(o) == IF o.exc = "none" THEN Append(log, o.ret) ELSE <<>>

\* Result::Next on r1
CursorNext(fault) ==
    /\ Running /\ Len(log) < MaxCalls
    /\ \E e \in {Result_Next(build, stmt, robj["r1"].h, fault)} :
       /\ stmt' = e.st
       /\ Record("Result::Next", "r1", RetBool(e), e.exc, e.calls)
       /\ Halt(e.ub, "none")
       /\ log' = Logged(e)
    /\ CursorFrame

\* Statement::Evaluate on s1
CursorEvaluate(fault) ==
    /\ Running /\ Len(log) < MaxCalls
    /\ \E e \in {Statement_Evaluate(build, stmt, sobj["s1"].h, fault)} :
       /\ stmt' = e.st
       /\ Record("Statement::Evaluate", "s1", RetBool(e), e.exc, e.calls)
       /\ Halt(e.ub, "none")
       /\ log' = Logged(e)
    /\ CursorFrame

\* Result::Reset on r1
CursorReset ==
    /\ Running
    /\ \E e \in {Result_Reset(build, stmt, robj["r1"].h)} :
       /\ stmt' = e.st
       /\ Record("Result::Reset", "r1", RetBool(e), e.exc, e.calls)
       /\ Halt(e.ub, "none")
    /\ log' = <<>>
    /\ CursorFrame

\* Statement::Reset on s1
CursorStatementReset ==
    /\ Running
    /\ \E e \in {Statement_Reset(build, stmt, sobj["s1"].h)} :
       /\ stmt' = e.st
       /\ Record("Statement::Reset", "s1", RetBool(e), e.exc, e.calls)
       /\ Halt(e.ub, "none")
    /\ log' = <<>>
    /\ CursorFrame

\* Result::ColumnCount on r1
CursorColumnCount(fault) ==
    /\ Running
    /\ \E e \in {Result_ColumnCount(build, stmt, robj["r1"].h, fault)} :
       /\ stmt' = e.st
       /\ Record("Result::ColumnCount", "r1", RetInt(e), e.exc, e.calls)
       /\ Halt(e.ub, "none")
    /\ log' = <<>>
    /\ CursorFrame

\* Result::HasData on r1
CursorHasData(fault) ==
    /\ Running
    /\ \E e \in {Result_HasData(build, stmt, robj["r1"].h, fault)} :
       /\ stmt' = e.st
       /\ Record("Result::HasData", "r1", RetBool(e), e.exc, e.calls)
       /\ Halt(e.ub, "none")
    /\ log' = <<>>
    /\ CursorFrame

NextCursor ==
    \/ \E f \in Faults : CursorNext(f)
    \/ \E f \in Faults : CursorEvaluate(f)
    \/ CursorReset
    \/ CursorStatementReset
    \/ \E f \in Faults : CursorColumnCount(f)
    \/ \E f \in Faults : CursorHasData(f)

SpecCursor == InitCursor /\ [][NextCursor]_vars

\* the row position of a cursor: the rows delivered in the evaluation under way
RowPos(s) == IF s.run = "rows" THEN s.pos ELSE 0
StepCalls(calls) == SelectSeq(calls, LAMBDA c : c[1] = "step")

\* C4: ColumnCount() and HasData(), called on a fresh cursor, after k
\* successful Next() with rows remaining, or on an exhausted cursor, leave
\* the cursor's row position as it was.
C4_ColumnCountKeepsPosition ==
    [][(/\ last'.op \in {"Result::ColumnCount", "Result::HasData"}
        /\ last'.exc = "none"
        /\ \/ stmt[TheStmt].run = "ready"
           \/ stmt[TheStmt].run = "rows" /\ stmt[TheStmt].pos < stmt[TheStmt].rows)
       => RowPos(stmt'[TheStmt]) = RowPos(stmt[TheStmt])]_vars

\* C5: from a fresh cursor over n rows, step i returns true exactly when i is
\* not a multiple of n+1: n times true, then false, then again from the
\* first row.
C5_NextTrueRowsTimesThenFalse ==
    \A i \in 1..Len(log) : log[i] = (i % (stmt[TheStmt].rows + 1) # 0)

C5_Witness ==
    /\ stmt[TheStmt].rows = 2
    /\ last.op = "Result::Next"
    /\ log = <<TRUE, TRUE, FALSE, TRUE>>

\* C7: Evaluate() and Next() take exactly one engine step; they return true
\* when it reports a row, return false when it reports completion (and the
\* statement is then reset), and fail with Error, returning nothing, on any
\* other status.
C7_StepOutcomes ==
    last.op \in {"Statement::Evaluate", "Result::Next"} =>
        LET steps == StepCalls(last.calls) IN
        /\ Len(steps) = 1
        /\ \E code \in {steps[1][3]} :
           /\ code = SQLITE_ROW => last.ret.tag = "true" /\ last.exc = "none"
           /\ code = SQLITE_DONE =>
                /\ last.ret.tag = "false" /\ last.exc = "none"
                /\ stmt[TheStmt].run = "ready" /\ stmt[TheStmt].pos = 0
           /\ code \notin {SQLITE_ROW, SQLITE_DONE} =>
                last.exc = "Error" /\ last.ret = RetVoid

C7_Witness ==
    /\ last.op = "Statement::Evaluate"
    /\ last.exc = "Error"
    /\ Len(log) = 0
    /\ stmt[TheStmt].run = "error"

-----------------------------------------------------------------------------
(* Binding (specification SpecBind): a prepared Statement "s1" with        *)
(* MaxParams parameters, and the one-shot helpers with arguments           *)

Kinds == {"int32", "int64", "float", "double", "text", "Blob", "NOBlob"}
ArgVals == {[kind |-> "int32", v |-> i] : i \in 1..MaxIntArg}
           \cup {[kind |-> k, v |-> 1] : k \in Kinds \ {"int32"}}
\* the argument lists tried: any kind of value first, and after it an int
\* or a text
RestVals == {a \in ArgVals : a.v = 1 /\ a.kind \in {"int32", "text"}}
ArgLists == {a \in UNION {[1..k -> ArgVals] : k \in 1..MaxArgs} :
               \A i \in 2..Len(a) : a[i] \in RestVals}

BindFrame == UNCHANGED <<build, log, col, mem, db, cobj, bk>>

InitBind ==
    /\ build = "throw"
    /\ stmt = sqlite3_prepare_v2([g \in Handles |-> NoStmt], 1, MaxParams).st
    /\ sobj = [s \in SSlots |-> IF s = "s1" THEN [alive |-> TRUE, h |-> TheStmt, cls |-> "Statement"]
                                ELSE DeadS]
    /\ robj = [r \in RSlots |-> DeadR]
    /\ halt = "run"
    /\ last = [op |-> "init", obj |-> "none", ret |-> RetVoid, exc |-> "none", calls |-> <<>>]
    /\ InitOther

RecordBind(op, obj, ret, exc, calls, args, bound) ==
    last' = [op |-> op, obj |-> obj, ret |-> ret, exc |-> exc, calls |-> calls,
             args |-> args, bound |-> bound]

\* s1.Bind(v1, ..., vk) from the program; the private overload is not
\* accessible there, so a call that resolves to it does not compile
BindArgs(args) ==
    /\ Running
    /\ ~(Len(args) > 2 /\ args[1].kind = "int32")
    /\ \E e \in {Statement_Bind(build, stmt, sobj["s1"].h, args)} :
       /\ stmt' = e.st
       /\ RecordBind("Statement::Bind", "s1", RetBool(e), e.exc, e.calls, args, e.calls)
       /\ Halt(e.ub, "none")
    /\ UNCHANGED <<sobj, robj>>
    /\ BindFrame

\* s1.Evaluate()
BindEvaluate(fault) ==
    /\ Running
    /\ \E e \in {Statement_Evaluate(build, stmt, sobj["s1"].h, fault)} :
       /\ stmt' = e.st
       /\ Record("Statement::Evaluate", "s1", RetBool(e), e.exc, e.calls)
       /\ Halt(e.ub, "none")
    /\ UNCHANGED <<sobj, robj>>
    /\ BindFrame

\* Connection::Statement(command, first, args...): a local Statement, Bind
\* (its result unused), Evaluate, and the local's destructor
ConnStatementArgs(args, rows, fault) ==
    /\ Running /\ CanPrepare
    /\ \E c \in {Statement_Ctor(build, stmt, rows, MaxParams, FALSE)} :
       \E b \in {Statement_Bind(build, c.st, c.h, args)} :
          IF b.exc # "none"
          THEN \E d \in {Statement_Dtor(build, b.st, c.h)} :
               /\ stmt' = d.st
               /\ RecordBind("Connection::Statement", "conn", RetVoid, b.exc,
                             c.calls \o b.calls \o d.calls, args, b.calls)
               /\ Halt(b.ub \/ d.ub, d.exc)
          ELSE \E e \in {Statement_Evaluate(build, b.st, c.h, fault)} :
               \E d \in {Statement_Dtor(build, e.st, c.h)} :
                  /\ stmt' = d.st
                  /\ RecordBind("Connection::Statement", "conn", RetBool(e), e.exc,
                                c.calls \o b.calls \o e.calls \o d.calls, args, b.calls)
                  /\ Halt(b.ub \/ e.ub \/ d.ub, d.exc)
    /\ UNCHANGED <<sobj, robj>>
    /\ BindFrame

\* Connection::Query(command, first, args...): a local Query, Bind (its
\* result unused), and an owning Result of the Query's handle
ConnQueryArgs(r, args, rows) ==
    /\ Running /\ CanPrepare /\ ~robj[r].alive
    /\ \E c \in {Statement_Ctor(build, stmt, rows, MaxParams, FALSE)} :
       \E b \in {Statement_Bind(build, c.st, c.h, args)} :
          IF b.exc # "none"
          THEN \E d \in {Statement_Dtor(build, b.st, c.h)} :
               /\ stmt' = d.st /\ robj' = robj
               /\ RecordBind("Connection::Query", r, RetVoid, b.exc,
                             c.calls \o b.calls \o d.calls, args, b.calls)
               /\ Halt(b.ub \/ d.ub, d.exc)
          ELSE /\ stmt' = b.st
               /\ robj' = [robj EXCEPT ![r] = [alive |-> TRUE, h |-> c.h, owning |-> TRUE]]
               /\ RecordBind("Connection::Query", r, RetVoid, "none",
                             c.calls \o b.calls, args, b.calls)
               /\ Halt(b.ub, "none")
    /\ UNCHANGED sobj
    /\ BindFrame

\* a prepared statement, bound and evaluated by the program
NextBind ==
    \/ \E a \in ArgLists : BindArgs(a)
    \/ \E f \in LifeFaults : BindEvaluate(f)

SpecBind == InitBind /\ [][NextBind]_vars

\* the one-shot helpers with arguments, from a program without objects
NextOneShot ==
    \/ \E a \in ArgLists, n \in LifeRows, f \in LifeFaults : ConnStatementArgs(a, n, f)
    \/ \E a \in ArgLists, n \in LifeRows : ConnQueryArgs("r1", a, n)
    \/ ResultDestroy("r1")

SpecOneShot == Init /\ [][NextOneShot]_vars

\* what a Bind(v1, ..., vk) is to ask of the engine, in order
Asked(c) == IF c[1] = "bind" THEN <<"bind", c[4], c[5], c[6]>> ELSE <<c[1]>>
ExpectedBind(args) ==
    <<<<"reset">>>> \o [i \in 1..Len(args) |-> <<"bind", i, BindFn(args[i].kind), args[i].v>>]
IsPrefix(a, b) == Len(a) <= Len(b) /\ \A i \in 1..Len(a) : a[i] = b[i]
AllOk(calls) == \A i \in 1..Len(calls) : CheckErrorOk(calls[i][3])

\* C3: the variadic Bind(v1, ..., vk), called directly or by
\* Connection::Statement / Connection::Query, resets the statement and then
\* binds vi at position i, in order, whatever the kinds of the values; it
\* stops early only at an engine call that failed.
C3_BindResetsThenBindsInOrder ==
    (last.op \in {"Statement::Bind", "Connection::Statement", "Connection::Query"}) =>
        LET asked == [i \in 1..Len(last.bound) |-> Asked(last.bound[i])] IN
        /\ IsPrefix(asked, ExpectedBind(last.args))
        /\ AllOk(last.bound) => asked = ExpectedBind(last.args)

-----------------------------------------------------------------------------
(* Column extraction (specification SpecGet): Result::Get<std::string> and *)
(* Result::Get<sqlite::Blob> on the column of the current row              *)

Bytes == 0..MaxByte
ByteStrings == UNION {[1..n -> Bytes] : n \in 0..MaxLen}
\* what the engine reports of a column: its bytes, and a pointer to them that
\* may be null when there are none
ColVals == {[bytes |-> bs, ptr |-> p] : bs \in ByteStrings, p \in {"null", "data"}}
ColumnValues == {c \in ColVals : c.ptr = "null" => Len(c.bytes) = 0}

sqlite3_column_bytes(c) == Len(c.bytes)
sqlite3_column_text(c) == c.ptr
sqlite3_column_blob(c) == c.ptr

\* reading n bytes through a pointer: nothing for n = 0, undefined through null
ReadBytes(c, ptr, n) ==
    [val |-> IF ptr = "null" THEN <<>> ELSE SubSeq(c.bytes, 1, n), ub |-> ptr = "null" /\ n > 0]

\* Blob::Blob(const void* data, int32_t bytes): resize, then memcpy to
\* &m_data.at(0); at(0) is range-checked and throws on an empty vector
Blob_Ctor(c, data, bytes) ==
    IF ~(0 < bytes) THEN [ret |-> NoRet, exc |-> "std::out_of_range", ub |-> FALSE]
    ELSE Eval(ReadBytes(c, data, bytes), LAMBDA r :
           [ret |-> [m_data |-> r.val], exc |-> "none", ub |-> r.ub])

\* Result::Get<std::string>: "" for size 0, else the bytes
Result_Get_string(c) ==
    IF sqlite3_column_bytes(c) = 0 THEN [ret |-> <<>>, exc |-> "none", ub |-> FALSE]
    ELSE Eval(ReadBytes(c, sqlite3_column_text(c), sqlite3_column_bytes(c)), LAMBDA r :
           [ret |-> r.val, exc |-> "none", ub |-> r.ub])

\* Result::Get<sqlite::Blob>: Blob(bytes, size)
Result_Get_Blob(c) == Blob_Ctor(c, sqlite3_column_blob(c), sqlite3_column_bytes(c))

GetFrame == UNCHANGED <<build, stmt, sobj, robj, log, mem, db, cobj, bk>>

InitGet ==
    /\ build = "throw" /\ InitObjects
    /\ log = <<>> /\ mem = <<>> /\ db = <<>> /\ cobj = <<>> /\ bk = <<>>
    /\ col \in ColumnValues

\* the cursor moves to a row with another value in the column
GetNextRow(c) ==
    /\ Running
    /\ col' = c
    /\ Record("Result::Next", "r1", [tag |-> "true", val |-> <<>>], "none", <<>>)
    /\ Halt(FALSE, "none")
    /\ GetFrame

GetString ==
    /\ Running
    /\ \E g \in {Result_Get_string(col)} :
         /\ Record("Result::Get<std::string>", "r1", RetString(g), g.exc, <<>>)
         /\ Halt(g.ub, "none")
    /\ col' = col
    /\ GetFrame

GetBlob ==
    /\ Running
    /\ \E g \in {Result_Get_Blob(col)} :
         /\ Record("Result::Get<sqlite::Blob>", "r1", RetBlob(g), g.exc, <<>>)
         /\ Halt(g.ub, "none")
    /\ col' = col
    /\ GetFrame

NextGet ==
    \/ \E c \in ColumnValues : GetNextRow(c)
    \/ GetString
    \/ GetBlob

SpecGet == InitGet /\ [][NextGet]_vars

\* C6: on a column of length zero, Get<std::string> returns the empty string
\* and Get<Blob> a Blob of size 0; neither raises nor reads through null.
C6_EmptyColumnReadsEmpty ==
    (Len(col.bytes) = 0 /\ last.op \in {"Result::Get<std::string>", "Result::Get<sqlite::Blob>"}) =>
        /\ last.exc = "none"
        /\ halt = "run"
        /\ last.op = "Result::Get<std::string>" => last.ret = [tag |-> "string", val |-> <<>>]
        /\ last.op = "Result::Get<sqlite::Blob>" => last.ret = [tag |-> "Blob", val |-> <<>>]

-----------------------------------------------------------------------------
(* Connections (specifications SpecConn and SpecConnLife) *)

DbHandles == 1..MaxDbs
CSlots == {"c1", "c2"}
NoDb == [st |-> "none", stmts |-> 0, backups |-> 0]
DeadC == [alive |-> FALSE, h |-> NULL]

\* sqlite3_open: a new connection handle, returned even when opening fails
FreeDbs(d) == {h \in DbHandles : d[h].st = "none"}
NewDb(d) == CHOOSE h \in FreeDbs(d) : \A g \in FreeDbs(d) : h <= g
sqlite3_open(d, fail) ==
    [db |-> [d EXCEPT ![NewDb(d)] = [st |-> IF fail THEN "failed" ELSE "open",
                                     stmts |-> 0, backups |-> 0]],
     h |-> NewDb(d),
     code |-> IF fail THEN "SQLITE_CANTOPEN" ELSE SQLITE_OK]

\* sqlite3_close: a no-op on null; busy while statements of the connection
\* are unfinalized or backups reading from it are unfinished; closing a closed
\* handle is a use of freed memory
sqlite3_close(d, h) ==
    IF h = NULL THEN [db |-> d, code |-> SQLITE_OK, ub |-> FALSE]
    ELSE IF d[h].st \in {"closed", "double"}
    THEN [db |-> [d EXCEPT ![h].st = "double"], code |-> SQLITE_MISUSE, ub |-> TRUE]
    ELSE IF d[h].stmts > 0 \/ d[h].backups > 0
    THEN [db |-> d, code |-> "SQLITE_BUSY", ub |-> FALSE]
    ELSE [db |-> [d EXCEPT ![h].st = "closed"], code |-> SQLITE_OK, ub |-> FALSE]

\* Connection::Open: sqlite3_open into m_connection, then CheckError
Connection_Open(b, d, fail) ==
    Eval(sqlite3_open(d, fail), LAMBDA o :
      Eval(CheckError(b, o.code), LAMBDA c :
        [db |-> o.db, h |-> o.h,
         ret |-> IF c.exc = "none" THEN c.ret ELSE NoRet, exc |-> c.exc]))

\* a Close that would leave the closed handle in m_connection
Connection_Close_KeepsHandle(b, d, h) ==
    Eval(sqlite3_close(d, h), LAMBDA x :
      Eval(CheckError(b, x.code), LAMBDA c :
        [db |-> x.db, h |-> h, ret |-> IF c.exc # "none" THEN NoRet ELSE c.ret,
         exc |-> c.exc, ub |-> x.ub]))

\* Connection::Close: CheckError(sqlite3_close(m_connection)), then
\* m_connection = nullptr (not reached when CheckError throws)
Connection_Close(b, d, h) ==
    Eval(sqlite3_close(d, h), LAMBDA x :
      Eval(CheckError(b, x.code), LAMBDA c :
        IF c.exc # "none" THEN [db |-> x.db, h |-> h, ret |-> NoRet, exc |-> c.exc, ub |-> x.ub]
        ELSE [db |-> x.db, h |-> NULL, ret |-> c.ret, exc |-> "none", ub |-> x.ub]))

\* Connection::~Connection: Close() inside try / catch(...)
Connection_Dtor(b, d, h) ==
    Eval(Connection_Close(b, d, h), LAMBDA x :
      [db |-> x.db, ret |-> NoRet, exc |-> "none", ub |-> x.ub])

\* a move that would leave the handle in the source as well
Connection_Move_Copies(objs, src, dst) ==
    [objs EXCEPT ![dst] = [alive |-> TRUE, h |-> objs[src].h]]

\* Connection(Connection&&) and the body of operator=(Connection&&):
\* m_connection = other.m_connection; other.m_connection = nullptr
Connection_Move(objs, src, dst) ==
    [objs EXCEPT ![dst] = [alive |-> TRUE, h |-> objs[src].h], ![src].h = NULL]

ConnFrame == UNCHANGED <<build, stmt, sobj, robj, log, col, mem, bk>>
RecordConn(op, obj, ret, exc, src, h) ==
    last' = [op |-> op, obj |-> obj, ret |-> ret, exc |-> exc, src |-> src, h |-> h]

InitConn ==
    /\ build = "throw" /\ InitObjects
    /\ log = <<>> /\ col = <<>> /\ mem = <<>> /\ bk = <<>>
    /\ db = [h \in DbHandles |-> NoDb]
    /\ cobj = [c \in CSlots |-> DeadC]

\* Connection()
ConnDefault(c) ==
    /\ Running /\ ~cobj[c].alive
    /\ cobj' = [cobj EXCEPT ![c] = [alive |-> TRUE, h |-> NULL]]
    /\ db' = db
    /\ RecordConn("Connection()", c, RetVoid, "none", c, NULL)
    /\ Halt(FALSE, "none")
    /\ ConnFrame

\* Connection(filename): Open in the constructor; an Error leaves no object
ConnFromFile(c, fail) ==
    /\ Running /\ ~cobj[c].alive /\ FreeDbs(db) # {}
    /\ \E o \in {Connection_Open(build, db, fail)} :
         /\ db' = o.db
         /\ cobj' = IF o.exc # "none" THEN cobj
                    ELSE [cobj EXCEPT ![c] = [alive |-> TRUE, h |-> o.h]]
         /\ RecordConn("Connection(filename)", c, RetVoid, o.exc, c, o.h)
    /\ Halt(FALSE, "none")
    /\ ConnFrame

\* Connection::Open on an object, empty or not
ConnOpen(c, fail) ==
    /\ Running /\ cobj[c].alive /\ FreeDbs(db) # {}
    /\ \E o \in {Connection_Open(build, db, fail)} :
         /\ db' = o.db
         /\ cobj' = [cobj EXCEPT ![c].h = o.h]
         /\ RecordConn("Connection::Open", c, RetBool(o), o.exc, c, cobj[c].h)
    /\ Halt(FALSE, "none")
    /\ ConnFrame

\* Connection::Close
ConnClose(c) ==
    /\ Running /\ cobj[c].alive
    /\ \E x \in {Connection_Close(build, db, cobj[c].h)} :
         /\ db' = x.db
         /\ cobj' = [cobj EXCEPT ![c].h = x.h]
         /\ RecordConn("Connection::Close", c, RetBool(x), x.exc, c, cobj[c].h)
         /\ Halt(x.ub, "none")
    /\ ConnFrame

\* Connection(Connection&&)
ConnMoveCtor(src, dst) ==
    /\ Running /\ cobj[src].alive /\ ~cobj[dst].alive
    /\ cobj' = Connection_Move(cobj, src, dst)
    /\ db' = db
    /\ RecordConn("Connection(Connection&&)", dst, RetVoid, "none", src, cobj[src].h)
    /\ Halt(FALSE, "none")
    /\ ConnFrame

\* Connection::operator=(Connection&&): nothing when &other == this
ConnMoveAssign(src, dst) ==
    /\ Running /\ cobj[src].alive /\ cobj[dst].alive
    /\ cobj' = IF src # dst THEN Connection_Move(cobj, src, dst) ELSE cobj
    /\ db' = db
    /\ RecordConn("Connection::operator=", dst, RetVoid, "none", src, cobj[src].h)
    /\ Halt(FALSE, "none")
    /\ ConnFrame

\* ~Connection
ConnDestroy(c) ==
    /\ Running /\ cobj[c].alive
    /\ \E x \in {Connection_Dtor(build, db, cobj[c].h)} :
         /\ db' = x.db
         /\ RecordConn("~Connection", c, RetVoid, x.exc, c, cobj[c].h)
         /\ Halt(x.ub, "none")
    /\ cobj' = [cobj EXCEPT ![c] = DeadC]
    /\ ConnFrame

\* a statement is prepared on the connection of c and kept by the program
ConnPrepare(c) ==
    /\ Running /\ cobj[c].alive /\ cobj[c].h # NULL
    /\ db[cobj[c].h].st = "open" /\ db[cobj[c].h].stmts < MaxPending
    /\ db' = [db EXCEPT ![cobj[c].h].stmts = @ + 1]
    /\ cobj' = cobj
    /\ RecordConn("Connection::PrepareStatement", c, RetVoid, "none", c, cobj[c].h)
    /\ Halt(FALSE, "none")
    /\ ConnFrame

\* a statement of connection h is destroyed (finalized)
ConnFinalize(h) ==
    /\ Running /\ db[h].st = "open" /\ db[h].stmts > 0
    /\ db' = [db EXCEPT ![h].stmts = @ - 1]
    /\ cobj' = cobj
    /\ RecordConn("~Statement", "stmt", RetVoid, "none", "stmt", h)
    /\ Halt(FALSE, "none")
    /\ ConnFrame

NextConn ==
    \/ \E c \in CSlots : ConnDefault(c)
    \/ \E c \in CSlots, f \in BOOLEAN : ConnFromFile(c, f)
    \/ \E c \in CSlots, f \in BOOLEAN : ConnOpen(c, f)
    \/ \E c \in CSlots : ConnClose(c)
    \/ \E a, c \in CSlots : ConnMoveCtor(a, c)
    \/ \E a, c \in CSlots : ConnMoveAssign(a, c)
    \/ \E c \in CSlots : ConnDestroy(c)
    \/ \E c \in CSlots : ConnPrepare(c)
    \/ \E h \in DbHandles : ConnFinalize(h)

SpecConn == InitConn /\ [][NextConn]_vars

Holders(h) == {c \in CSlots : cobj[c].alive /\ cobj[c].h = h}
ConnMoves == {"Connection(Connection&&)", "Connection::operator="}

\* C9: a native database handle is held by at most one Connection; a move
\* leaves the handle in the destination, and a move from one Connection to
\* another leaves the source empty.
C9_HandleHeldByAtMostOne ==
    /\ \A h \in DbHandles : Cardinality(Holders(h)) <= 1
    /\ last.op \in ConnMoves =>
          /\ cobj[last.obj].h = last.h
          /\ last.src # last.obj => cobj[last.src].h = NULL

C9_Witness ==
    /\ last.op = "Connection::operator="
    /\ last.src # last.obj
    /\ last.h # NULL
    /\ Holders(last.h) = {last.obj}

\* Connection::Open on an empty Connection, succeeding
ConnOpenEmpty(c) == cobj[c].h = NULL /\ ConnOpen(c, FALSE)

\* Connections whose opens succeed and happen on empty objects only, with
\* no statement left on them: Open on an empty Connection, Close, moves,
\* move assignments and destruction
NextConnLife ==
    \/ \E c \in CSlots : ConnDefault(c)
    \/ \E c \in CSlots : ConnFromFile(c, FALSE)
    \/ \E c \in CSlots : ConnOpenEmpty(c)
    \/ \E c \in CSlots : ConnClose(c)
    \/ \E a, c \in CSlots : ConnMoveCtor(a, c)
    \/ \E a, c \in CSlots : ConnMoveAssign(a, c)
    \/ \E c \in CSlots : ConnDestroy(c)

SpecConnLife == InitConn /\ [][NextConnLife]_vars

AllConnectionsDestroyed == \A c \in CSlots : ~cobj[c].alive

\* C10: no database handle is closed twice, and once every Connection has
\* been destroyed every handle that was opened has been closed.
C10_EveryHandleClosedOnce ==
    /\ \A h \in DbHandles : db[h].st # "double"
    /\ AllConnectionsDestroyed => \A h \in DbHandles : db[h].st \in {"none", "closed"}


-----------------------------------------------------------------------------
(* Reporting of a failed step                                              *)

\* the engine calls of the operation recorded in last whose status is an
\* error
FailedCalls == SelectSeq(last.calls, LAMBDA c : ~CheckErrorOk(c[3]) /\ c[3] # SQLITE_ROW)

\* C11: a failed step (Statement::Evaluate or Result::Next) is reported once,
\* at that call: an Error raised by an operation on the statement is for a
\* step of that operation, never the failure of an earlier step handed back
\* by the sqlite3_reset of a later Reset(), ColumnCount() or HasData().
C11_FailureReportedOnce ==
    last.exc = "Error" =>
        /\ FailedCalls # <<>>
        /\ FailedCalls[1][1] = "step"

-----------------------------------------------------------------------------
(* The build with CPP_SQLITE_NOTHROW (specification SpecNoThrow): a        *)
(* prepared Statement "s1" that the program binds, evaluates and resets,   *)
(* and the one-shot Connection::Statement                                  *)

InitNoThrow ==
    /\ build = "nothrow"
    /\ \E n \in Rows :
         stmt = sqlite3_prepare_v2([g \in Handles |-> NoStmt], n, MaxParams).st
    /\ sobj = [s \in SSlots |-> IF s = "s1" THEN [alive |-> TRUE, h |-> TheStmt, cls |-> "Statement"]
                                ELSE DeadS]
    /\ robj = [r \in RSlots |-> DeadR]
    /\ halt = "run"
    /\ last = [op |-> "init", obj |-> "none", ret |-> RetVoid, exc |-> "none", calls |-> <<>>]
    /\ InitOther

NextNoThrow ==
    \/ \E a \in ArgLists : BindArgs(a)
    \/ \E f \in Faults : BindEvaluate(f)
    \/ CursorStatementReset
    \/ \E n \in LifeRows, pf \in BOOLEAN, f \in LifeFaults : ConnStatement(n, pf, f)

SpecNoThrow == InitNoThrow /\ [][NextNoThrow]_vars

\* the operations of SpecNoThrow that return a boolean
FlagOps == {"Statement::Bind", "Statement::Evaluate", "Statement::Reset",
            "Connection::Statement"}

\* C12: in the build with CPP_SQLITE_NOTHROW no operation raises, and the
\* boolean a fallible operation returns is false exactly when one of its
\* engine calls reported a failure, and true when the operation succeeded.
C12_BooleanIsSuccessFlag ==
    /\ last.exc = "none"
    /\ last.op \in FlagOps =>
         /\ last.ret.tag \in {"true", "false"}
         /\ last.ret.tag = "false" <=> FailedCalls # <<>>

-----------------------------------------------------------------------------
(* Completion of the one-shot Connection::Statement                        *)

\* C13: Connection::Statement(command, args...) executes the command to
\* completion before it returns: when it returns without an Error, the
\* engine has reported completion (SQLITE_DONE) for a step of the command,
\* also for a command that produces rows.
C13_StatementRunsToCompletion ==
    (last.op = "Connection::Statement" /\ last.exc = "none") =>
        \E i \in 1..Len(last.calls) :
            last.calls[i][1] = "step" /\ last.calls[i][3] = SQLITE_DONE

-----------------------------------------------------------------------------
(* Closing twice                                                           *)

\* C14: Connection::Close() is idempotent. On a Connection that holds no
\* handle (already closed, or never opened) it returns success without an
\* Error, touches no database and leaves the Connection empty; and after any
\* Close() that returned success the Connection holds no handle.
C14_CloseIdempotent ==
    [][\A c \in CSlots : ConnClose(c) =>
         /\ (last'.exc = "none" /\ last'.ret.tag = "true") => cobj'[c].h = NULL
         /\ cobj[c].h = NULL =>
              /\ last'.exc = "none" /\ last'.ret.tag = "true"
              /\ cobj'[c].h = NULL
              /\ db' = db
              /\ halt' = "run"]_vars

\* a Close() on a Connection left empty by an earlier Close()
C14_Witness ==
    /\ last.op = "Connection::Close" /\ last.h = NULL
    /\ last.exc = "none" /\ last.ret.tag = "true"
    /\ cobj[last.obj].alive /\ cobj[last.obj].h = NULL
    /\ \E d \in DbHandles : db[d].st = "closed"

-----------------------------------------------------------------------------
(* ColumnCount on an empty result set                                      *)

\* C15: on a Result over an empty result set, with no engine failure pending
\* or occurring, ColumnCount() returns 0 wherever it is called (before or
\* after a Next()), and a Next() called right after it returns false, as on
\* a fresh cursor.
C15_EmptyResultColumnCountZero ==
    [][stmt[TheStmt].rows = 0 =>
         /\ (CursorColumnCount("none") /\ stmt[TheStmt].run # "error") =>
               /\ last'.exc = "none"
               /\ last'.ret = [tag |-> "int", val |-> <<0>>]
         /\ (last.op = "Result::ColumnCount" /\ last.exc = "none" /\ CursorNext("none")) =>
               /\ last'.exc = "none"
               /\ last'.ret.tag = "false"]_vars

\* ColumnCount() has returned 0 on the empty result set
C15_Witness ==
    /\ stmt[TheStmt].rows = 0
    /\ last.op = "Result::ColumnCount" /\ last.exc = "none"
    /\ last.ret = [tag |-> "int", val |-> <<0>>]

-----------------------------------------------------------------------------
(* Bindings left by earlier Bind calls                                     *)

\* C16: the variadic Bind(v1, ..., vk) discards the values bound earlier:
\* when it has reset the statement and bound v1..vk at positions 1..k, every
\* position greater than k holds no value (it is NULL).
C16_BindDiscardsEarlierValues ==
    (/\ last.op = "Statement::Bind" /\ last.exc = "none"
     /\ AllOk(last.bound)
     /\ [i \in 1..Len(last.bound) |-> Asked(last.bound[i])] = ExpectedBind(last.args)) =>
        \A i \in 1..MaxParams :
            i > Len(last.args) => stmt[TheStmt].params[i].kind = "null"

-----------------------------------------------------------------------------
(* Bound values and the program's memory (specification SpecBorrow): a     *)
(* prepared Statement "s1", and std::string and Blob objects of the        *)
(* program whose buffers the Bind overloads hand to the engine             *)

\* the buffers (data() of a std::string, GetData() of a Blob), by address
Bufs == 1..MaxBufs
OwnedKinds == {"text", "Blob"}
\* Bind arguments: a std::string or Blob, given by the address of its
\* buffer, or an integer, given by its value
BorrowVals == {[kind |-> k, v |-> a] : k \in OwnedKinds, a \in Bufs}
              \cup {[kind |-> "int64", v |-> 1]}
BorrowArgLists == UNION {[1..k -> BorrowVals] : k \in 1..2}

\* sqlite3_bind_text / sqlite3_bind_blob with a null destructor
\* (SQLITE_STATIC): the engine keeps the pointer and reads the bytes when a
\* step needs them
ByPointer(p) == p.kind \in {"text", "blob"}
Deref(m, p) ==
    IF p.kind = "null" THEN <<>>
    ELSE IF ByPointer(p) THEN <<m.buf[p.v].bytes>>
    ELSE <<p.v>>
Dangling(m, params) ==
    \E i \in 1..Len(params) : ByPointer(params[i]) /\ ~m.buf[params[i].v].live

InitBorrow ==
    /\ build = "throw"
    /\ stmt = sqlite3_prepare_v2([g \in Handles |-> NoStmt], 1, MaxParams).st
    /\ sobj = [s \in SSlots |-> IF s = "s1" THEN [alive |-> TRUE, h |-> TheStmt, cls |-> "Statement"]
                                ELSE DeadS]
    /\ robj = [r \in RSlots |-> DeadR]
    /\ halt = "run"
    /\ last = [op |-> "init", obj |-> "none", ret |-> RetVoid, exc |-> "none", calls |-> <<>>]
    /\ log = <<>> /\ col = <<>> /\ db = <<>> /\ cobj = <<>> /\ bk = <<>>
    /\ mem = [buf |-> [a \in Bufs |-> [live |-> TRUE, bytes |-> 0]],
              snap |-> [i \in 1..MaxParams |-> <<>>]]

BorrowFrame == UNCHANGED <<build, sobj, robj, log, col, db, cobj, bk>>

\* s1.Bind(v1, ..., vk) with live objects of the program; snap remembers what
\* each value bound was at that moment
BorrowBind(args) ==
    /\ Running
    /\ \A i \in 1..Len(args) : args[i].kind \in OwnedKinds => mem.buf[args[i].v].live
    /\ \E e \in {Statement_Bind(build, stmt, sobj["s1"].h, args)} :
       /\ stmt' = e.st
       /\ mem' = [mem EXCEPT !.snap = [i \in 1..MaxParams |->
                    IF \E j \in 1..Len(e.calls) :
                         /\ e.calls[j][1] = "bind" /\ e.calls[j][3] = SQLITE_OK
                         /\ e.calls[j][4] = i
                    THEN Deref(mem, e.st[TheStmt].params[i])
                    ELSE mem.snap[i]]]
       /\ Record("Statement::Bind", "s1", RetBool(e), e.exc, e.calls)
       /\ Halt(e.ub, "none")
    /\ BorrowFrame

\* the program writes to a string or blob it owns, in place
BorrowModify(a, b) ==
    /\ Running
    /\ mem.buf[a].live /\ mem.buf[a].bytes # b
    /\ mem' = [mem EXCEPT !.buf[a].bytes = b]
    /\ UNCHANGED <<stmt, last, halt>>
    /\ BorrowFrame

\* a string or blob of the program is destroyed, its buffer freed
BorrowDestroy(a) ==
    /\ Running
    /\ mem.buf[a].live
    /\ mem' = [mem EXCEPT !.buf[a].live = FALSE]
    /\ UNCHANGED <<stmt, last, halt>>
    /\ BorrowFrame

\* s1.Evaluate(): the step reads the bound values; a value kept by pointer is
\* read from the program's buffer, and reading a freed buffer is undefined
\* (any bytes may be seen)
BorrowEvaluate(garbage) ==
    /\ Running
    /\ \E e \in {Statement_Evaluate(build, stmt, sobj["s1"].h, "none")} :
       \E ps \in {stmt[TheStmt].params} :
       /\ stmt' = e.st
       /\ last' = [op |-> "Statement::Evaluate", obj |-> "s1", ret |-> RetBool(e),
                   exc |-> e.exc, calls |-> e.calls,
                   used |-> [i \in 1..Len(ps) |->
                               IF ByPointer(ps[i]) /\ ~mem.buf[ps[i].v].live
                               THEN <<garbage>> ELSE Deref(mem, ps[i])],
                   snap |-> mem.snap]
       /\ Halt(e.ub \/ Dangling(mem, ps), "none")
    /\ mem' = mem
    /\ BorrowFrame

NextBorrow ==
    \/ \E a \in BorrowArgLists : BorrowBind(a)
    \/ \E a \in Bufs, b \in Bytes : BorrowModify(a, b)
    \/ \E a \in Bufs : BorrowDestroy(a)
    \/ \E g \in Bytes : BorrowEvaluate(g)

SpecBorrow == InitBorrow /\ [][NextBorrow]_vars

\* C17: after binding a std::string or an owning Blob, every later
\* Evaluate() uses the value as it was when it was bound, also when the
\* object bound from has been modified or destroyed in between (only a
\* NOBlob depends on memory the caller manages).
C17_OwnedValuesUsedAsBound ==
    last.op = "Statement::Evaluate" =>
        /\ halt # "ub"
        /\ last.used = last.snap

-----------------------------------------------------------------------------
(* Connection::Backup (specification SpecBackup): Connections that are     *)
(* opened, closed, destroyed and backed up, to another Connection or to a  *)
(* file                                                                     *)

BkHandles == 1..MaxBackups
NoBk == [st |-> "none", src |-> NULL, dst |-> NULL, rc |-> SQLITE_OK]
FreeBk(k) == {b \in BkHandles : k[b].st = "none"}
NewBk(k) == CHOOSE b \in FreeBk(k) : \A g \in FreeBk(k) : b <= g
BackupFaults == {"none", "SQLITE_BUSY", "SQLITE_IOERR"}

\* sqlite3_backup_init(dst, "main", src, "main"): null when the engine
\* refuses (a handle that is null or not open, source and destination the
\* same connection, or a failure of its own); otherwise a new backup object,
\* which keeps the source connection busy until it is finished
sqlite3_backup_init(d, k, dst, src, fail) ==
    IF dst = NULL \/ src = NULL \/ dst = src \/ fail
    THEN [db |-> d, bk |-> k, h |-> NULL, ub |-> FALSE]
    ELSE IF d[dst].st \in {"closed", "double"} \/ d[src].st \in {"closed", "double"}
    THEN [db |-> d, bk |-> k, h |-> NULL, ub |-> TRUE]
    ELSE IF d[dst].st # "open" \/ d[src].st # "open"
    THEN [db |-> d, bk |-> k, h |-> NULL, ub |-> FALSE]
    ELSE [db |-> [d EXCEPT ![src].backups = @ + 1],
          bk |-> [k EXCEPT ![NewBk(k)] = [st |-> "active", src |-> src, dst |-> dst,
                                          rc |-> SQLITE_OK]],
          h |-> NewBk(k), ub |-> FALSE]

\* sqlite3_backup_step(b, -1): copies every page and reports SQLITE_DONE, or
\* fails
sqlite3_backup_step(k, b, fault) ==
    Eval(IF fault = "none" THEN SQLITE_DONE ELSE fault, LAMBDA code :
      [bk |-> [k EXCEPT ![b].rc = code], code |-> code])

\* sqlite3_backup_finish: releases the backup object and reports the fatal
\* error of an earlier step, if any
sqlite3_backup_finish(d, k, b) ==
    [db |-> [d EXCEPT ![k[b].src].backups = @ - 1],
     bk |-> [k EXCEPT ![b].st = "finished"],
     code |-> IF k[b].rc \in {SQLITE_OK, SQLITE_DONE, "SQLITE_BUSY"} THEN SQLITE_OK
              ELSE k[b].rc]

BackupOut(d, k, ret, exc, stage, bh, ub) ==
    [db |-> d, bk |-> k, ret |-> ret, exc |-> exc, stage |-> stage, bh |-> bh, ub |-> ub]

\* Connection::Backup(Connection& backup): init, step, finish; each failure
\* leaves through CPP_SQLITE_THROW at once
Connection_Backup(b, d, k, src, dst, initFail, fault) ==
    Eval(sqlite3_backup_init(d, k, dst, src, initFail), LAMBDA i :
      IF i.h = NULL
      THEN BackupOut(i.db, i.bk, FALSE, CPP_SQLITE_THROW(b), "init", NULL, i.ub)
      ELSE Eval(sqlite3_backup_step(i.bk, i.h, fault), LAMBDA s :
        IF ~CheckError(b, s.code).ret
        THEN BackupOut(i.db, s.bk, FALSE, CheckError(b, s.code).exc, "step", i.h, i.ub)
        ELSE Eval(sqlite3_backup_finish(i.db, s.bk, i.h), LAMBDA f :
          IF ~CheckError(b, f.code).ret
          THEN BackupOut(f.db, f.bk, FALSE, CheckError(b, f.code).exc, "finish", i.h, i.ub)
          ELSE BackupOut(f.db, f.bk, TRUE, "none", "done", i.h, i.ub))))

\* Connection::Backup(filename): a local Connection(filename), Backup to it,
\* and the local's destructor on every way out of Backup; an Error from the
\* local's constructor leaves no object to destroy
Connection_BackupFile(b, d, k, src, openFail, initFail, fault) ==
    Eval(Connection_Open(b, d, openFail), LAMBDA o :
      IF o.exc # "none"
      THEN [db |-> o.db, bk |-> k, ret |-> FALSE, exc |-> o.exc, stage |-> "open",
            bh |-> NULL, ub |-> FALSE, temp |-> o.h]
      ELSE Eval(Connection_Backup(b, o.db, k, src, o.h, initFail, fault), LAMBDA r :
        Eval(Connection_Dtor(b, r.db, o.h), LAMBDA x :
          [db |-> x.db, bk |-> r.bk, ret |-> r.ret, exc |-> r.exc, stage |-> r.stage,
           bh |-> r.bh, ub |-> r.ub \/ x.ub, temp |-> o.h])))

BackupFrame == UNCHANGED <<build, stmt, sobj, robj, log, col, mem, cobj>>

InitBackup ==
    /\ build = "throw" /\ InitObjects
    /\ log = <<>> /\ col = <<>> /\ mem = <<>>
    /\ db = [h \in DbHandles |-> NoDb]
    /\ cobj = [c \in CSlots |-> DeadC]
    /\ bk = [b \in BkHandles |-> NoBk]

\* src.Backup(dst)
BackupTo(src, dst, initFail, fault) ==
    /\ Running /\ cobj[src].alive /\ cobj[dst].alive /\ FreeBk(bk) # {}
    /\ \E r \in {Connection_Backup(build, db, bk, cobj[src].h, cobj[dst].h, initFail, fault)} :
         /\ db' = r.db /\ bk' = r.bk
         /\ last' = [op |-> "Connection::Backup(Connection&)", obj |-> src,
                     ret |-> RetBool(r), exc |-> r.exc, src |-> src, h |-> cobj[src].h,
                     stage |-> r.stage, bh |-> r.bh, temp |-> NULL]
         /\ Halt(r.ub, "none")
    /\ BackupFrame

\* src.Backup(filename)
BackupToFile(src, openFail, initFail, fault) ==
    /\ Running /\ cobj[src].alive /\ FreeDbs(db) # {} /\ FreeBk(bk) # {}
    /\ \E r \in {Connection_BackupFile(build, db, bk, cobj[src].h, openFail, initFail, fault)} :
         /\ db' = r.db /\ bk' = r.bk
         /\ last' = [op |-> "Connection::Backup(filename)", obj |-> src,
                     ret |-> RetBool(r), exc |-> r.exc, src |-> src, h |-> cobj[src].h,
                     stage |-> r.stage, bh |-> r.bh, temp |-> r.temp]
         /\ Halt(r.ub, "none")
    /\ BackupFrame

NextBackup ==
    \/ \E c \in CSlots : ConnDefault(c)
    \/ \E c \in CSlots, f \in BOOLEAN : ConnFromFile(c, f)
    \/ \E c \in CSlots : ConnClose(c)
    \/ \E c \in CSlots : ConnDestroy(c)
    \/ \E a, c \in CSlots, i \in BOOLEAN, f \in BackupFaults : BackupTo(a, c, i, f)
    \/ \E a \in CSlots, o, i \in BOOLEAN, f \in BackupFaults : BackupToFile(a, o, i, f)

SpecBackup == InitBackup /\ [][NextBackup]_vars

BackupOps == {"Connection::Backup(Connection&)", "Connection::Backup(filename)"}

\* C18: Connection::Backup releases what it acquired on every way out: when
\* it returns, with success or with an Error raised at initialization, at
\* the copy step or at finish, the backup object it initialized has been
\* finished, and the temporary Connection of Backup(filename) has been
\* closed.
C18_BackupReleasesEverything ==
    (last.op \in BackupOps /\ last.stage \in {"init", "step", "finish", "done"}) =>
        /\ last.bh # NULL => bk[last.bh].st = "finished"
        /\ last.op = "Connection::Backup(filename)" => db[last.temp].st = "closed"


=============================================================================
